---- MODULE Spec2Model ----
(***************************************************************************)
(* Model of src-tauri/src/lib.rs: the native shell of the application.     *)
(*                                                                         *)
(* run() configures a tauri Builder (single-instance plugin on desktop,    *)
(* deep-link plugin, a setup hook, the open_url command) and hands control *)
(* to the runtime.  The runtime, the plugins, the operating system and the *)
(* webview content are the environment: they launch further instances,     *)
(* deliver deep links, invoke the command and answer OS calls.  Every      *)
(* answer of the environment that the code inspects (a Result, an Option)  *)
(* is a nondeterministic input of the action that models the code.         *)
(***************************************************************************)
EXTENDS Naturals, Sequences, FiniteSets

VARIABLES
    target,             \* compilation target of the build (cfg(desktop), cfg(target_os))
    debug_assertions,   \* cfg(debug_assertions): TRUE in a debug build
    pc,                 \* position of run() / of the process
    plugins,            \* plugins attached to the builder / the app
    setup,              \* TRUE once the setup closure is stored in the builder
    commands,           \* commands registered with invoke_handler
    schemes,            \* TRUE once register_all() has registered the schemes
    listener,           \* TRUE once on_open_url() has installed the closure
    logLevel,           \* level filter of the attached log plugin, "none" without it
    mainWindow,         \* get_webview_window("main") is Some
    focus,              \* outcome of the latest set_focus() on the main window
    focusRequests,      \* number of set_focus() calls made
    extraWindows,       \* windows shown by further instances of the application
    osOpens,            \* strings handed to open::that, in order
    invocations,        \* open_url invocations: argument, OS outcome, what the caller got
    launches,           \* number of further launches of the application so far
    completed,          \* number of single-instance callbacks that ran to their end
    secondInstanceLog,  \* args printed by the single-instance callback
    delivered,          \* lists of URLs the OS delivered to the running instance
    deepLinkLog,        \* lists of URLs printed by the on_open_url closure
    infoLines,          \* number of lines emitted through the log plugin
    exit,               \* how the process ended: "none", "zero" or "nonzero"
    diagnostic          \* messages of the panics raised so far

vars == << target, debug_assertions, pc, plugins, setup, commands, schemes,
           listener, logLevel, mainWindow, focus, focusRequests, extraWindows, osOpens,
           invocations, launches, completed, secondInstanceLog, delivered,
           deepLinkLog, infoLines, exit, diagnostic >>

\* The in-process state of the application the claims speak about.
appState == << plugins, setup, commands, schemes, listener, logLevel, mainWindow, pc, exit >>

\* What the builder and the app have been configured with.
wiring == << plugins, setup, commands, schemes, listener, logLevel >>

-----------------------------------------------------------------------------
\* Bounds of the model.

\* Total number of environment events (command invocations, further launches,
\* deep-link deliveries, log lines) in one run.
MaxEvents == 3

\* Strings the webview content passes to open_url: a well-formed URL, the same
\* URL with surrounding blanks, a custom-scheme URL, and text that is no URL.
Urls == { "https://a.org", " https://a.org ", "roomy://room/1", "not a url" }

\* Lists of URLs of the custom scheme that the OS delivers in one event.
UrlLists == { << "roomy://room/1" >>, << "roomy://room/1", "roomy://room/2" >> }

\* Command lines and working directories of further launches.
ArgLists == { << "roomy" >>, << "roomy", "roomy://room/1" >> }
Cwds == { "/", "/home/u" }

Targets == { "linux", "windows", "macos", "mobile" }

Events == Len(invocations) + launches + Len(delivered) + infoLines

-----------------------------------------------------------------------------
\* Conditional compilation.

\* #[cfg(desktop)]
Desktop(t) == t \in { "linux", "windows", "macos" }

\* Variant: the listener block compiled for linux alone.
DeepLinkListenerLinuxOnly(t) == t = "linux"

\* #[cfg(any(target_os = "linux", windows))]
DeepLinkListenerCompiled(t) == t \in { "linux", "windows" }

\* Variant: the logger block compiled into every build.
LoggerAlways(d) == TRUE

\* #[cfg(debug_assertions)]
LoggerCompiled(d) == d

-----------------------------------------------------------------------------
\* Panics.

ExpectRun == "error while running tauri application"
ExpectMainWindow == "no main window"
UnwrapErr == "called Result::unwrap() on an Err value"

Init ==
    /\ target \in Targets
    /\ debug_assertions \in BOOLEAN
    /\ pc = "start"
    /\ plugins = {}
    /\ setup = FALSE
    /\ commands = {}
    /\ schemes = FALSE
    /\ listener = FALSE
    /\ logLevel = "none"
    /\ mainWindow = FALSE
    /\ focus = "none"
    /\ focusRequests = 0
    /\ extraWindows = 0
    /\ osOpens = << >>
    /\ invocations = << >>
    /\ launches = 0
    /\ completed = 0
    /\ secondInstanceLog = << >>
    /\ delivered = << >>
    /\ deepLinkLog = << >>
    /\ infoLines = 0
    /\ exit = "none"
    /\ diagnostic = {}

-----------------------------------------------------------------------------
\* Variable groups.

build == << target, debug_assertions >>
windows == << mainWindow, focus, focusRequests, extraWindows >>
opens == << osOpens, invocations >>
instanceEvents == << launches, completed, secondInstanceLog >>
linkEvents == << delivered, deepLinkLog >>
ending == << exit, diagnostic >>

-----------------------------------------------------------------------------
\* run(): configuring the builder.

\* let mut builder = Builder::default();
BuilderDefault ==
    /\ pc = "start"
    /\ pc' = "builder"
    /\ UNCHANGED << build, wiring, windows, opens, instanceEvents, linkEvents,
                    infoLines, ending >>

\* Variant: the single-instance plugin left out on every target.
NoSingleInstancePlugin(t) == {}

\* #[cfg(desktop)] { builder = builder.plugin(tauri_plugin_single_instance::init(..)); }
SingleInstancePlugin(t) == IF Desktop(t) THEN { "single_instance" } ELSE {}

AttachSingleInstance ==
    /\ pc = "builder"
    /\ pc' = "guarded"
    /\ plugins' = plugins \cup SingleInstancePlugin(target)
    /\ UNCHANGED << build, setup, commands, schemes, listener, logLevel, windows, opens,
                    instanceEvents, linkEvents, infoLines, ending >>

\* builder.plugin(tauri_plugin_deep_link::init())
AttachDeepLink ==
    /\ pc = "guarded"
    /\ pc' = "deep_link"
    /\ plugins' = plugins \cup { "deep_link" }
    /\ UNCHANGED << build, setup, commands, schemes, listener, logLevel, windows, opens,
                    instanceEvents, linkEvents, infoLines, ending >>

\* .setup(|app| { .. }): the closure is stored; the runtime calls it from run().
StoreSetup ==
    /\ pc = "deep_link"
    /\ pc' = "setup_stored"
    /\ setup' = TRUE
    /\ UNCHANGED << build, plugins, commands, schemes, listener, logLevel, windows, opens,
                    instanceEvents, linkEvents, infoLines, ending >>

\* tauri::generate_handler![open_url]
GenerateHandler == { "open_url" }

\* .invoke_handler(tauri::generate_handler![open_url])
InvokeHandler ==
    /\ pc = "setup_stored"
    /\ pc' = "configured"
    /\ commands' = GenerateHandler
    /\ UNCHANGED << build, plugins, setup, schemes, listener, logLevel, windows, opens,
                    instanceEvents, linkEvents, infoLines, ending >>

-----------------------------------------------------------------------------
\* run(): .run(tauri::generate_context!()).expect(..)

\* A panic that ends the process: its message is printed, the exit status is
\* not zero and the windows of the process are gone.
Terminate(msg) ==
    /\ pc' = "exited"
    /\ exit' = "nonzero"
    /\ diagnostic' = diagnostic \cup { msg }
    /\ mainWindow' = FALSE

\* .run(..) builds the app and initialises the attached plugins; an Err it
\* returns is turned into a panic by .expect(..).
RunBuild ==
    /\ pc = "configured"
    /\ \E ok \in BOOLEAN :
          IF ok
          THEN /\ pc' = "built"
               /\ UNCHANGED << mainWindow, ending >>
          ELSE Terminate(ExpectRun)
    /\ UNCHANGED << build, wiring, focus, focusRequests, extraWindows, opens,
                    instanceEvents, linkEvents, infoLines >>

\* The runtime creates the windows of the context (generate_context!()),
\* "main" among them, before it calls the setup closure.
RunCreateWindows ==
    /\ pc = "built"
    /\ pc' = "windowed"
    /\ mainWindow' = TRUE
    /\ UNCHANGED << build, wiring, focus, focusRequests, extraWindows, opens,
                    instanceEvents, linkEvents, infoLines, ending >>

\* Variant: the setup closure drops the errors of its two calls (no `?`).
SetupHookIgnoringErr(t, d, regOk, logOk) ==
    LET reg == DeepLinkListenerCompiled(t)
        log == LoggerCompiled(d)
    IN  [ schemes  |-> reg /\ regOk,
          listener |-> reg /\ regOk,
          plugins  |-> IF log /\ logOk THEN { "log" } ELSE {},
          logLevel |-> IF log /\ logOk THEN "Info" ELSE "none",
          result   |-> "Ok" ]

\* The setup closure.  regOk and logOk are the outcomes of register_all() and
\* of app.handle().plugin(..); each `?` returns the Err at once.
SetupHook(t, d, regOk, logOk) ==
    LET reg == DeepLinkListenerCompiled(t)
        regFails == reg /\ ~regOk
        log == LoggerCompiled(d) /\ ~regFails
        logFails == log /\ ~logOk
    IN  [ schemes  |-> reg /\ regOk,
          listener |-> reg /\ regOk,
          plugins  |-> IF log /\ logOk THEN { "log" } ELSE {},
          logLevel |-> IF log /\ logOk THEN "Info" ELSE "none",
          result   |-> IF regFails \/ logFails THEN "Err" ELSE "Ok" ]

\* The runtime calls the stored setup closure; its Err makes run fail, and
\* .expect(..) panics.  After Ok(()) the event loop serves the application.
RunSetup ==
    /\ pc = "windowed"
    /\ setup
    /\ \E regOk \in BOOLEAN, logOk \in BOOLEAN :
          LET r == SetupHook(target, debug_assertions, regOk, logOk)
          IN  /\ schemes' = r.schemes
              /\ listener' = r.listener
              /\ plugins' = plugins \cup r.plugins
              /\ logLevel' = r.logLevel
              /\ IF r.result = "Ok"
                 THEN /\ pc' = "running"
                      /\ UNCHANGED << mainWindow, ending >>
                 ELSE Terminate(ExpectRun)
    /\ UNCHANGED << build, setup, commands, focus, focusRequests, extraWindows,
                    opens, instanceEvents, linkEvents, infoLines >>

\* The event loop ends when the application is closed: run returns Ok(()).
RunExit ==
    /\ pc = "running"
    /\ pc' = "exited"
    /\ exit' = "zero"
    /\ mainWindow' = FALSE
    /\ UNCHANGED << build, wiring, focus, focusRequests, extraWindows, opens,
                    instanceEvents, linkEvents, infoLines, diagnostic >>

-----------------------------------------------------------------------------
\* The open_url command.

\* Variant: the string is trimmed before it is handed to the OS opener.
OpenThatTrimmed(url) == << IF url = " https://a.org " THEN "https://a.org" ELSE url >>

\* Variant: the OS opener is called twice.
OpenThatTwice(url) == << url, url >>

\* open::that(url): the string handed to the OS opener.
OpenThat(url) == << url >>

\* Variant: the outcome of the OS call is dropped (`let _ = open::that(url);`).
open_url_swallow(url, os) ==
    [ requests |-> OpenThat(url),
      result   |-> "Ok" ]

\* fn open_url(url: &str) -> Result<(), Error>
\* os is the outcome of the OS open call: "accepted" (Ok) or "failed" (Err).
open_url(url, os) ==
    [ requests |-> OpenThat(url),
      result   |-> IF os = "accepted" THEN "Ok" ELSE "panic" ]

\* The webview content invokes the command through the invoke handler.  A
\* panic ends the process or only the invocation, as the build's panic
\* strategy and the thread serving the command decide.
InvokeOpenUrl ==
    /\ pc = "running"
    /\ "open_url" \in commands
    /\ Events < MaxEvents
    /\ \E url \in Urls, os \in { "accepted", "failed" }, ends \in BOOLEAN :
          LET r == open_url(url, os)
          IN  /\ osOpens' = osOpens \o r.requests
              /\ invocations' = Append(invocations,
                                       [ url |-> url, os |-> os, result |-> r.result ])
              /\ IF r.result = "panic"
                 THEN IF ends
                      THEN Terminate(UnwrapErr)
                      ELSE /\ diagnostic' = diagnostic \cup { UnwrapErr }
                           /\ UNCHANGED << pc, exit, mainWindow >>
                 ELSE UNCHANGED << pc, ending, mainWindow >>
    /\ UNCHANGED << build, wiring, focus, focusRequests, extraWindows,
                    instanceEvents, linkEvents, infoLines >>

-----------------------------------------------------------------------------
\* The single-instance callback.

\* Variant: the Result of set_focus() is unwrapped instead of dropped.
SingleInstanceCallbackUnwrapFocus(args, cwd, window, focusOk) ==
    [ printed  |-> << args >>,
      requests |-> << >>,
      focus    |-> IF window THEN (IF focusOk THEN "ok" ELSE "err") ELSE "none",
      result   |-> IF window /\ focusOk THEN "completed" ELSE "panic" ]

\* |app, args, _cwd| { println!(..{args:?}..);
\*     let _ = app.get_webview_window("main").expect("no main window").set_focus(); }
\* window: get_webview_window("main") is Some; focusOk: set_focus() returns Ok.
\* The line is printed before the window is looked up; `let _ =` drops the
\* Result of set_focus().
SingleInstanceCallback(args, cwd, window, focusOk) ==
    [ printed  |-> << args >>,
      requests |-> << >>,
      focus    |-> IF window THEN (IF focusOk THEN "ok" ELSE "err") ELSE "none",
      result   |-> IF window THEN "completed" ELSE "panic" ]

\* The application is launched again while this process lives.  With the
\* single-instance plugin initialised the new process notifies this one and
\* exits without a window; without it the new process shows its own window.
SecondInstance ==
    /\ pc \in { "built", "windowed", "running" }
    /\ Desktop(target)
    /\ Events < MaxEvents
    /\ launches' = launches + 1
    /\ \E args \in ArgLists, cwd \in Cwds, focusOk \in BOOLEAN, ends \in BOOLEAN :
          IF "single_instance" \in plugins
          THEN LET r == SingleInstanceCallback(args, cwd, mainWindow, focusOk)
               IN  /\ secondInstanceLog' = secondInstanceLog \o r.printed
                   /\ osOpens' = osOpens \o r.requests
                   /\ extraWindows' = extraWindows
                   /\ focusRequests' = IF r.focus = "none" THEN focusRequests
                                                           ELSE focusRequests + 1
                   /\ focus' = IF r.focus = "none" THEN focus ELSE r.focus
                   /\ IF r.result = "panic"
                      THEN /\ completed' = completed
                           /\ IF ends
                              THEN Terminate(ExpectMainWindow)
                              ELSE /\ diagnostic' = diagnostic \cup { ExpectMainWindow }
                                   /\ UNCHANGED << pc, exit, mainWindow >>
                      ELSE /\ completed' = completed + 1
                           /\ UNCHANGED << pc, ending, mainWindow >>
          ELSE /\ extraWindows' = extraWindows + 1
               /\ UNCHANGED << secondInstanceLog, osOpens, focusRequests, focus,
                               completed, pc, ending, mainWindow >>
    /\ UNCHANGED << build, wiring, invocations, linkEvents, infoLines >>

-----------------------------------------------------------------------------
\* The deep-link listener.

\* Variant: the closure opens every URL it receives.
OnOpenUrlOpening(urls) ==
    [ printed  |-> << urls >>,
      requests |-> urls ]

\* |event| { println!("deep link URLs: {:?}", event.urls()); }
OnOpenUrl(urls) ==
    [ printed  |-> << urls >>,
      requests |-> << >> ]

\* The OS hands URLs of a registered scheme to the running instance; the
\* deep-link plugin calls the closure installed with on_open_url, if any.
DeliverDeepLink ==
    /\ pc = "running"
    /\ "deep_link" \in plugins
    /\ Events < MaxEvents
    /\ \E urls \in UrlLists :
          /\ delivered' = Append(delivered, urls)
          /\ IF listener
             THEN LET r == OnOpenUrl(urls)
                  IN  /\ deepLinkLog' = deepLinkLog \o r.printed
                      /\ osOpens' = osOpens \o r.requests
             ELSE UNCHANGED << deepLinkLog, osOpens >>
    /\ UNCHANGED << build, wiring, pc, windows, invocations, instanceEvents,
                    infoLines, ending >>

-----------------------------------------------------------------------------
\* The log plugin.

\* tauri_plugin_log::Builder::default().level(log::LevelFilter::Info).build():
\* once attached, the plugin emits the informational records of the process.
EmitInfoLog ==
    /\ pc = "running"
    /\ "log" \in plugins
    /\ Events < MaxEvents
    /\ infoLines' = infoLines + 1
    /\ UNCHANGED << build, wiring, pc, windows, opens, instanceEvents, linkEvents,
                    ending >>

-----------------------------------------------------------------------------

Next ==
    \/ BuilderDefault
    \/ AttachSingleInstance
    \/ AttachDeepLink
    \/ StoreSetup
    \/ InvokeHandler
    \/ RunBuild
    \/ RunCreateWindows
    \/ RunSetup
    \/ RunExit
    \/ InvokeOpenUrl
    \/ SecondInstance
    \/ DeliverDeepLink
    \/ EmitInfoLog

Spec == Init /\ [][Next]_vars

-----------------------------------------------------------------------------
\* Properties.

\* Windows of the application visible on the screen.
VisibleWindows == (IF mainWindow THEN 1 ELSE 0) + extraWindows

\* The platforms on which the setup closure registers the schemes.
HasSchemeRegistration == target \in { "linux", "windows" }

\* The plugins, commands and listeners of a completed startup.
StartupComplete ==
    /\ plugins = (IF target = "mobile" THEN {} ELSE { "single_instance" })
                 \cup { "deep_link" }
                 \cup (IF debug_assertions THEN { "log" } ELSE {})
    /\ setup
    /\ commands = { "open_url" }
    /\ HasSchemeRegistration => schemes /\ listener

\* A step in which the application is launched again.
LaunchStep == launches' = launches + 1

\* A step in which the OS delivers a deep link.
DeliveryStep == Len(delivered') = Len(delivered) + 1

\* A step in which open_url is invoked.
InvokeStep == Len(invocations') = Len(invocations) + 1

\* C1 (as stated): every invocation of open_url returns Ok(()) to the caller,
\* whether the OS open call was accepted or failed.
C1_AlwaysOk ==
    \A i \in DOMAIN invocations : invocations[i].result = "Ok"

\* C1 (amended): open_url returns Ok(()) exactly when the OS open call is
\* accepted; when the OS open call fails the command panics (unwrap) and
\* returns nothing, neither Ok(()) nor an Err.
C1_OkIffAccepted ==
    \A i \in DOMAIN invocations :
        /\ invocations[i].result \in { "Ok", "panic" }
        /\ invocations[i].result = "Ok" <=> invocations[i].os = "accepted"

C1_Witness ==
    /\ \E i \in DOMAIN invocations :
          invocations[i].os = "failed" /\ invocations[i].result = "panic"
    /\ \E i \in DOMAIN invocations :
          invocations[i].os = "accepted" /\ invocations[i].result = "Ok"

\* C2: while an instance runs with its main window shown (desktop), a further
\* launch never adds a visible window and makes the callback ask the main
\* window for focus; the number of visible windows never exceeds one and stays
\* at one across launches.
C2_SingleWindow ==
    [][ /\ Desktop(target) => VisibleWindows' <= 1
        /\ (LaunchStep /\ VisibleWindows = 1) =>
              /\ focusRequests' = focusRequests + 1
              /\ VisibleWindows' = 1
              /\ extraWindows' = 0 ]_vars

C2_Witness ==
    /\ pc = "running"
    /\ launches >= 2
    /\ focusRequests >= 2
    /\ VisibleWindows = 1

\* C3: the i-th string handed to the OS opener is the argument of the i-th
\* invocation of open_url, unchanged.
C3_SameString ==
    /\ Len(osOpens) = Len(invocations)
    /\ \A i \in DOMAIN invocations : osOpens[i] = invocations[i].url

C3_Witness ==
    \E i \in DOMAIN invocations, j \in DOMAIN invocations :
        /\ invocations[i].url = " https://a.org " /\ osOpens[i] = " https://a.org "
        /\ invocations[j].url = "not a url" /\ osOpens[j] = "not a url"

\* C5: on linux and windows the lists of URLs the closure installed with
\* on_open_url receives are the lists the OS delivered to the running
\* instance, in order; on the other targets no closure is installed and none
\* runs.
C5_DeepLinksReceived ==
    /\ HasSchemeRegistration => deepLinkLog = delivered
    /\ ~HasSchemeRegistration => ~listener /\ deepLinkLog = << >>

C5_Witness ==
    /\ target = "windows"
    /\ Len(delivered) >= 2
    /\ delivered[1] # delivered[2]
    /\ deepLinkLog = delivered

\* C6 (as stated): an invocation of open_url issues exactly one OS open
\* request and leaves the plugins, the commands, the listener and the window
\* as they were, for every input.
C6_NoStateChange ==
    [][ InvokeStep =>
          /\ Len(osOpens') = Len(osOpens) + 1
          /\ UNCHANGED << plugins, commands, listener, mainWindow >> ]_vars

\* C6 (amended): an invocation of open_url issues exactly one OS open request
\* for every input; when the OS accepts the request the call changes no
\* in-process state (plugins, commands, listener, window, position of the
\* process); when the OS call fails the plugins, commands and listener are
\* still unchanged, but the panic may end the process and its window.
C6_OneRequestFrame ==
    [][ InvokeStep =>
          /\ Len(osOpens') = Len(osOpens) + 1
          /\ UNCHANGED wiring
          /\ invocations'[Len(invocations')].os = "accepted" =>
                UNCHANGED << appState, windows, instanceEvents, linkEvents, ending >>
          /\ invocations'[Len(invocations')].os = "failed" =>
                \/ UNCHANGED << appState, windows >>
                \/ pc' = "exited" /\ exit' = "nonzero" /\ ~mainWindow' ]_vars

C6_Witness ==
    /\ pc = "running"
    /\ mainWindow
    /\ Len(invocations) >= 2
    /\ invocations[1].os = "accepted"
    /\ invocations[2].os = "failed"

\* C7: in a release build the log plugin is never attached and emits no line;
\* in a debug build it is attached, at level Info, by the time the setup
\* closure has returned and the event loop runs.
C7_LoggerDebugOnly ==
    /\ ~debug_assertions => "log" \notin plugins /\ logLevel = "none" /\ infoLines = 0
    /\ "log" \in plugins <=> logLevel = "Info"
    /\ (debug_assertions /\ pc = "running") => "log" \in plugins

C7_Witness ==
    /\ debug_assertions
    /\ pc = "running"
    /\ logLevel = "Info"
    /\ infoLines >= 1

\* C8 (as stated): guard, then deep-link plugin, then (debug) logger, then the
\* registration of open_url, then the event loop: once open_url is registered
\* the logger of a debug build is attached.
C8_StatedOrder ==
    /\ "deep_link" \in plugins => (Desktop(target) => "single_instance" \in plugins)
    /\ "log" \in plugins => "deep_link" \in plugins
    /\ "open_url" \in commands => (debug_assertions => "log" \in plugins)
    /\ pc = "running" => "open_url" \in commands
    /\ invocations # << >> => StartupComplete

\* C8 (amended): the guard is attached (desktop only), then the deep-link
\* plugin, then the setup closure is stored, then open_url is registered as
\* the sole command; run then calls the setup closure, which registers the
\* schemes and the listener (linux, windows) and then attaches the logger
\* (debug), and only after it returned Ok does the event loop serve commands.
C8_Order ==
    /\ "deep_link" \in plugins => (Desktop(target) => "single_instance" \in plugins)
    /\ setup => "deep_link" \in plugins
    /\ commands \subseteq { "open_url" }
    /\ commands # {} => setup
    /\ (schemes \/ listener) => commands = { "open_url" }
    /\ "log" \in plugins =>
          /\ commands = { "open_url" }
          /\ HasSchemeRegistration => schemes /\ listener
    /\ pc = "running" => StartupComplete
    /\ invocations # << >> => StartupComplete

C8_Witness ==
    /\ target = "linux"
    /\ debug_assertions
    /\ invocations # << >>
    /\ pc = "running"

\* C9: a deep-link event or a further launch delivered to the running
\* instance causes no OS open request and no invocation of open_url, and
\* changes nothing of the application but the focus request: the values are
\* printed and dropped.
C9_OnlyLogged ==
    [][ (LaunchStep \/ DeliveryStep) =>
          /\ osOpens' = osOpens
          /\ invocations' = invocations
          /\ UNCHANGED wiring
          /\ pc = "running" => UNCHANGED << appState, extraWindows >> ]_vars

C9_Witness ==
    /\ pc = "running"
    /\ deepLinkLog # << >>
    /\ \E i \in DOMAIN secondInstanceLog : Len(secondInstanceLog[i]) = 2
    /\ focusRequests >= 1
    /\ osOpens = << >>

\* C10 (as stated): whenever a second-instance notification arrives, with or
\* without a main window, the callback completes and the instance keeps
\* running and serving open_url.
C10_NeverFails ==
    [][ LaunchStep =>
          /\ completed' = completed + 1
          /\ UNCHANGED << pc, exit, commands >> ]_vars

\* C10 (amended): a notification that arrives while the main window exists
\* never ends or fails the instance, whether set_focus() succeeds or fails:
\* the callback completes and the instance keeps its position and its
\* commands.  A notification that arrives while no main window exists makes
\* the callback panic with "no main window".
C10_CompletesWithWindow ==
    [][ LaunchStep =>
          IF mainWindow
          THEN /\ completed' = completed + 1
               /\ UNCHANGED << appState, ending >>
               /\ pc = "running" => "open_url" \in commands'
          ELSE /\ completed' = completed
               /\ ExpectMainWindow \in diagnostic' ]_vars

C10_Witness ==
    /\ pc = "running"
    /\ completed >= 1
    /\ focus = "err"
    /\ "open_url" \in commands

====
